---- MODULE Spec2Model ----
(***************************************************************************)
(* The BondForge package facade (src/src/__init__.py) as a state machine.  *)
(*                                                                         *)
(* The package body is a straight line of statements: a docstring, five    *)
(* metadata assignments, three "from .module import Class" statements and  *)
(* the assignment of __all__.  The state is what those statements act on:  *)
(* the interpreter's table of loaded modules (sys.modules), the namespace  *)
(* of the package module being executed, the namespaces of the loaded      *)
(* collaborator modules, the position in the package body, and what the    *)
(* importer got back (a module or an error).                               *)
(***************************************************************************)
EXTENDS Integers, Sequences, FiniteSets, TLC

VARIABLES
    sysmodules,  \* loaded-module table: qualified name -> module object
    ns,          \* namespace of the package module object pkgId: name -> value
    modns,       \* namespaces of the registered collaborator modules
    pc,          \* position in the package body, or "idle" / "done" / "failed"
    pkgId,       \* identity of the package module object ns belongs to (0: none yet)
    nextId,      \* next fresh object identity
    raised,      \* error raised by a collaborator in the current execution ("none")
    err,         \* error delivered to the importer by the last import ("none")
    held,        \* what the importer's last successful import returned
    returned,    \* every module object an import has returned so far
    effects,     \* log of collaborator bodies executed (their own effects)
    attempts,    \* number of executions of the package body started
    imports      \* number of imports answered from the loaded-module table

vars == <<sysmodules, ns, modns, pc, pkgId, nextId, raised, err, held,
          returned, effects, attempts, imports>>

----------------------------------------------------------------------------
(* Bounds of the exploration *)

MaxAttempts == 3
MaxImports == 2

----------------------------------------------------------------------------
(* Values: strings, lists of names, class objects and module objects.      *)
(* Objects carry an identity; two objects are the same object iff equal.   *)

NoneVal == [kind |-> "none", s |-> "", id |-> 0, items |-> <<>>]
Str(t) == [kind |-> "str", s |-> t, id |-> 0, items |-> <<>>]
List(q) == [kind |-> "list", s |-> "", id |-> 0, items |-> q]
ClassObj(n, i) == [kind |-> "class", s |-> n, id |-> i, items |-> <<>>]
ModuleObj(n, i) == [kind |-> "module", s |-> n, id |-> i, items |-> <<>>]

EmptyMap == [x \in {} |-> NoneVal]
Bind(f, k, v) == [x \in (DOMAIN f) \cup {k} |-> IF x = k THEN v ELSE f[x]]
Remove(f, k) == [x \in (DOMAIN f) \ {k} |-> f[x]]
Range(q) == {q[i] : i \in DOMAIN q}

----------------------------------------------------------------------------
(* The package and its collaborators *)

Pkg == "package"

Collaborators ==
    << [module |-> "interaction_analyzer",
        name |-> "ProteinInteractionAnalyzer", line |-> "L19"],
       [module |-> "extended_interaction_analyzer",
        name |-> "ExtendedProteinInteractionAnalyzer", line |-> "L20"],
       [module |-> "interaction_visualizer",
        name |-> "InteractionVisualizer", line |-> "L21"] >>

Submodules == {Collaborators[c].module : c \in DOMAIN Collaborators}
Classes == {Collaborators[c].name : c \in DOMAIN Collaborators}
Meta == {"__version__", "__author__", "__email__", "__package_name__",
         "__tagline__"}

(* Attributes the import system sets on a module object before its body    *)
(* runs.                                                                   *)
MachineryNames == {"__name__", "__doc__", "__package__", "__loader__",
                   "__spec__", "__path__", "__file__", "__cached__",
                   "__builtins__"}

MachineryNs ==
    [n \in MachineryNames |->
        IF n = "__doc__" THEN NoneVal
        ELSE IF n \in {"__name__", "__package__"} THEN Str(Pkg)
        ELSE Str(n)]

(* Errors a collaborator module can raise while it loads. *)
Errors == {"ImportError", "ValueError"}

(* Outcome of executing a collaborator's body: it defines its class, or    *)
(* it raises.                                                              *)
CollabOutcomes == {"ok"} \cup Errors

(* The statements of the package body, in file order. *)
Lines == <<"L1", "L13", "L14", "L15", "L16", "L17", "L19", "L20", "L21",
           "L23">>
AssignLines == {"L1", "L13", "L14", "L15", "L16", "L17", "L23"}
ImportLines == {"L19", "L20", "L21"}

Running == pc \in Range(Lines) \cup {"return"}

IndexOf(l) == CHOOSE i \in DOMAIN Lines : Lines[i] = l

(* Variant: the first import statement placed above the tagline.           *)
NextLine_importEarly(l) ==
    LET alt == <<"L1", "L13", "L14", "L15", "L16", "L19", "L17", "L20",
                 "L21", "L23">>
        i == CHOOSE j \in DOMAIN alt : alt[j] = l
    IN  IF i = Len(alt) THEN "return" ELSE alt[i + 1]

(* Control falls through to the next statement; after the last one the     *)
(* body returns.                                                           *)
NextLine(l) ==
    IF IndexOf(l) = Len(Lines) THEN "return" ELSE Lines[IndexOf(l) + 1]

----------------------------------------------------------------------------
Init ==
    /\ sysmodules = EmptyMap
    /\ ns = EmptyMap
    /\ modns = [x \in {} |-> EmptyMap]
    /\ pc = "idle"
    /\ pkgId = 0
    /\ nextId = 1
    /\ raised = "none"
    /\ err = "none"
    /\ held = NoneVal
    /\ returned = {}
    /\ effects = <<>>
    /\ attempts = 0
    /\ imports = 0

----------------------------------------------------------------------------
(* Import-statement semantics used by the package body *)

(* What executing a collaborator's body leaves in its namespace when it    *)
(* succeeds: the class it defines, a fresh object.                         *)
CollabDefines(cls, i) == Bind(EmptyMap, cls, ClassObj(cls, i))

(* Variant: the statement binds the module itself under the class name.    *)
ImportedValue_module(mods, mn, m, cls) == mods[m]

(* "from .m import cls" binds the attribute cls of the module m.           *)
ImportedValue(mods, mn, m, cls) == mn[m][cls]

(* Variant: the facade catches the error and raises its own ImportError.   *)
Propagate_wrapped(e) == "ImportError"

(* The import statements are not inside any try block: the error a         *)
(* collaborator raises leaves the package body as it is.                   *)
Propagate(e) == e

(* Variant: the half-executed package stays registered.                    *)
OnBodyFailure_keep(mods) == mods

(* An exception leaving the package body: the import system drops the      *)
(* half-executed package from the loaded-module table.  Collaborators that *)
(* had loaded stay registered.                                             *)
OnBodyFailure(mods) == Remove(mods, Pkg)

(* Variant: __all__ also lists the version constant.                       *)
AllValue_withVersion ==
    <<"ProteinInteractionAnalyzer", "ExtendedProteinInteractionAnalyzer",
      "InteractionVisualizer", "__version__">>

(* The list assigned to __all__. *)
AllValue ==
    <<"ProteinInteractionAnalyzer", "ExtendedProteinInteractionAnalyzer",
      "InteractionVisualizer">>

(* A plain assignment statement of the body. *)
Assign(line, name, value) ==
    /\ pc = line
    /\ ns' = Bind(ns, name, value)
    /\ pc' = NextLine(pc)
    /\ UNCHANGED <<sysmodules, modns, pkgId, nextId, raised, err, held,
                   returned, effects, attempts, imports>>

----------------------------------------------------------------------------
(* The importer: "import package" when the package is not loaded.  The     *)
(* import system creates a new module object, registers it and starts      *)
(* executing the package body.                                             *)
ImportLoad ==
    /\ ~Running
    /\ Pkg \notin DOMAIN sysmodules
    /\ attempts < MaxAttempts
    /\ pkgId' = nextId
    /\ nextId' = nextId + 1
    /\ sysmodules' = Bind(sysmodules, Pkg, ModuleObj(Pkg, nextId))
    /\ ns' = MachineryNs
    /\ pc' = Lines[1]
    /\ raised' = "none"
    /\ err' = "none"
    /\ attempts' = attempts + 1
    /\ UNCHANGED <<modns, held, returned, effects, imports>>

(* Variant: an import of the loaded package executes the body again in a   *)
(* new module object.                                                      *)
ImportCached_reexecute ==
    /\ ~Running
    /\ Pkg \in DOMAIN sysmodules
    /\ imports < MaxImports
    /\ imports' = imports + 1
    /\ pkgId' = nextId
    /\ nextId' = nextId + 1
    /\ sysmodules' = Bind(sysmodules, Pkg, ModuleObj(Pkg, nextId))
    /\ ns' = MachineryNs
    /\ pc' = Lines[1]
    /\ attempts' = attempts + 1
    /\ UNCHANGED <<modns, raised, err, held, returned, effects>>

(* The importer: "import package" when the package is already in the       *)
(* loaded-module table.  The registered module object is returned.         *)
ImportCached ==
    /\ ~Running
    /\ Pkg \in DOMAIN sysmodules
    /\ imports < MaxImports
    /\ held' = sysmodules[Pkg]
    /\ returned' = returned \cup {sysmodules[Pkg]}
    /\ err' = "none"
    /\ imports' = imports + 1
    /\ UNCHANGED <<sysmodules, ns, modns, pc, pkgId, nextId, raised,
                   effects, attempts>>

(* lines 1-11: the docstring *)
BindDoc ==
    Assign("L1", "__doc__",
           Str("BondForge - Forging Insights from Chemical Bonds"))

(* Variant: a different version literal. *)
BindVersion_other == Assign("L13", "__version__", Str("1.0"))

(* line 13 *)
BindVersion == Assign("L13", "__version__", Str("1.0.0"))

(* Variant: the assignment also acts outside the namespace.                *)
BindAuthor_io ==
    /\ pc = "L14"
    /\ ns' = Bind(ns, "__author__", Str("Ayeh Bolouki"))
    /\ pc' = NextLine(pc)
    /\ effects' = Append(effects, "io")
    /\ UNCHANGED <<sysmodules, modns, pkgId, nextId, raised, err, held,
                   returned, attempts, imports>>

(* line 14 *)
BindAuthor == Assign("L14", "__author__", Str("Ayeh Bolouki"))

(* line 15 *)
BindEmail == Assign("L15", "__email__", Str("ayehbolouki1988@gmail.com"))

(* line 16 *)
BindPackageName == Assign("L16", "__package_name__", Str("BondForge"))

(* line 17 *)
BindTagline ==
    Assign("L17", "__tagline__", Str("Forging Insights from Chemical Bonds"))

(* lines 19-21: from .module import name, for the c-th collaborator.       *)
(* A collaborator already in the loaded-module table is not executed again *)
(* and is not bound again as an attribute of the package; otherwise its    *)
(* body runs and either defines the class or raises.                       *)
ImportFrom(c) ==
    LET m == Collaborators[c].module
        cls == Collaborators[c].name
    IN
    /\ pc = Collaborators[c].line
    /\ IF m \in DOMAIN sysmodules
       THEN /\ ns' = Bind(ns, cls, ImportedValue(sysmodules, modns, m, cls))
            /\ pc' = NextLine(pc)
            /\ UNCHANGED <<sysmodules, modns, nextId, raised, err, effects>>
       ELSE \E out \in CollabOutcomes :
            /\ effects' = Append(effects, m)
            /\ IF out = "ok"
               THEN LET mo == ModuleObj(m, nextId)
                        mods == Bind(sysmodules, m, mo)
                        mn == Bind(modns, m, CollabDefines(cls, nextId + 1))
                    IN  /\ sysmodules' = mods
                        /\ modns' = mn
                        /\ nextId' = nextId + 2
                        /\ ns' = Bind(Bind(ns, m, mo), cls,
                                      ImportedValue(mods, mn, m, cls))
                        /\ pc' = NextLine(pc)
                        /\ UNCHANGED <<raised, err>>
               ELSE /\ raised' = out
                    /\ err' = Propagate(out)
                    /\ sysmodules' = OnBodyFailure(sysmodules)
                    /\ pc' = "failed"
                    /\ UNCHANGED <<ns, modns, nextId>>
    /\ UNCHANGED <<pkgId, held, returned, attempts, imports>>

(* lines 23-27 *)
BindAll == Assign("L23", "__all__", List(AllValue))

(* End of the body: the import that started it returns the module.         *)
ImportReturn ==
    /\ pc = "return"
    /\ pc' = "done"
    /\ held' = sysmodules[Pkg]
    /\ returned' = returned \cup {sysmodules[Pkg]}
    /\ UNCHANGED <<sysmodules, ns, modns, pkgId, nextId, raised, err,
                   effects, attempts, imports>>

Next ==
    \/ ImportLoad
    \/ ImportCached
    \/ BindDoc
    \/ BindVersion
    \/ BindAuthor
    \/ BindEmail
    \/ BindPackageName
    \/ BindTagline
    \/ \E c \in DOMAIN Collaborators : ImportFrom(c)
    \/ BindAll
    \/ ImportReturn

Spec == Init /\ [][Next]_vars

----------------------------------------------------------------------------
(* Vocabulary of the properties *)

Bound(n) == n \in DOMAIN ns

(* Names a star-import of the package yields: the entries of __all__.      *)
StarExports ==
    IF Bound("__all__") THEN Range(ns["__all__"].items) ELSE {}

(* Bound names that do not begin with an underscore.                       *)
PublicNames == (DOMAIN ns) \ (Meta \cup MachineryNames \cup {"__all__"})

(* Collaborators whose body ran during the current execution of the        *)
(* package body: their module object is younger than the package's.        *)
LoadedByThisRun ==
    {m \in Submodules \cap DOMAIN sysmodules : sysmodules[m].id > pkgId}

IndexOfModule(m) ==
    CHOOSE c \in DOMAIN Collaborators : Collaborators[c].module = m

CollabAt(l) == CHOOSE c \in DOMAIN Collaborators : Collaborators[c].line = l

ClassesBefore(k) == {Collaborators[c].name : c \in 1..(k - 1)}

----------------------------------------------------------------------------
(* C1 as stated: after a successful load the exposed names are exactly the *)
(* three classes and the five metadata constants, whichever way "exposed"  *)
(* is read: the names listed by __all__, the bound names without a leading *)
(* underscore, or all the names bound in the package namespace.            *)
C1_ExactSurface ==
    pc = "done" =>
        \/ StarExports = Classes \cup Meta
        \/ PublicNames = Classes \cup Meta
        \/ DOMAIN ns = Classes \cup Meta

(* C1, amended: after a successful load __all__ lists exactly the three    *)
(* classes, the three classes and the five metadata constants are all      *)
(* bound in the package namespace, the metadata constants are not listed   *)
(* in __all__, and the namespace binds further names: __all__, the module  *)
(* attributes set by the import system, and the submodule name of exactly  *)
(* those collaborators whose body ran during this execution of the package *)
(* body.                                                                   *)
C1_Surface ==
    pc = "done" =>
        /\ Bound("__all__")
        /\ ns["__all__"].kind = "list"
        /\ Len(ns["__all__"].items) = 3
        /\ StarExports = Classes
        /\ Classes \cup Meta \subseteq DOMAIN ns
        /\ Meta \cap StarExports = {}
        /\ MachineryNames \cup {"__all__"} \subseteq DOMAIN ns
        /\ (DOMAIN ns) \cap Submodules = LoadedByThisRun
        /\ DOMAIN ns = Classes \cup Meta \cup MachineryNames \cup {"__all__"}
                           \cup LoadedByThisRun

(* A successful load that followed a failed one: the first collaborator    *)
(* was already loaded, so its submodule name is not bound in the package.  *)
C1_Witness ==
    /\ pc = "done"
    /\ StarExports = Classes
    /\ ~Bound("interaction_analyzer")
    /\ Bound("interaction_visualizer")

----------------------------------------------------------------------------
(* C2: after a successful load each of the three exported names is bound   *)
(* in the package namespace to the very object its defining submodule      *)
(* binds under that name.                                                  *)
C2_SameObject ==
    pc = "done" =>
        \A c \in DOMAIN Collaborators :
            LET m == Collaborators[c].module
                cls == Collaborators[c].name
            IN  /\ Bound(cls)
                /\ m \in DOMAIN modns
                /\ cls \in DOMAIN modns[m]
                /\ ns[cls] = modns[m][cls]
                /\ ns[cls].kind = "class"

(* Loaded, with a class object that is older than the package module       *)
(* object: it came from a collaborator loaded by an earlier, failed run.   *)
C2_Witness ==
    /\ pc = "done"
    /\ Bound("ProteinInteractionAnalyzer")
    /\ ns["ProteinInteractionAnalyzer"].id < pkgId
    /\ ns["InteractionVisualizer"].id > pkgId

----------------------------------------------------------------------------
(* C3: once the package is loaded, every further import returns the same   *)
(* module object, does not execute the package body again, and changes     *)
(* neither the package namespace nor the loaded-module table nor anything  *)
(* the collaborators hold.                                                 *)
C3_Idempotent ==
    [][pc = "done" =>
          /\ pc' = "done"
          /\ ns' = ns
          /\ sysmodules' = sysmodules
          /\ modns' = modns
          /\ pkgId' = pkgId
          /\ attempts' = attempts
          /\ effects' = effects
          /\ held' = held
          /\ returned' = returned
          /\ Cardinality(returned') = 1
          /\ err' = err]_vars

(* Two imports answered after the load. *)
C3_Witness ==
    /\ pc = "done"
    /\ imports >= 2
    /\ returned = {held}

----------------------------------------------------------------------------
(* C4: an import of the package fails if and only if a collaborator raised *)
(* while loading, and the error the importer gets is the error that        *)
(* collaborator raised; a failed execution loaded the failing collaborator *)
(* last.                                                                   *)
C4_ErrorPropagation ==
    (attempts > 0 /\ ~Running) =>
        /\ pc \in {"done", "failed"}
        /\ (pc = "failed") <=> (raised # "none")
        /\ err = raised
        /\ (pc = "failed") => (err \in Errors /\ effects # <<>>)
        /\ (pc = "done") => (err = "none")

(* A failed load whose collaborator raised an error other than             *)
(* ImportError.                                                            *)
C4_Witness ==
    /\ pc = "failed"
    /\ raised = "ValueError"
    /\ err = "ValueError"

----------------------------------------------------------------------------
(* C5: after a successful load the version is "1.0.0" and the package name *)
(* is "BondForge", and no later step changes either.                       *)
MetaLiterals ==
    /\ Bound("__version__")
    /\ ns["__version__"] = Str("1.0.0")
    /\ Bound("__package_name__")
    /\ ns["__package_name__"] = Str("BondForge")

C5_Constants ==
    /\ [](pc = "done" => MetaLiterals)
    /\ [][(pc = "done" /\ MetaLiterals) => (pc' = "done" /\ MetaLiterals')]_vars

(* Loaded, and imported again since. *)
C5_Witness ==
    /\ pc = "done"
    /\ imports >= 1
    /\ MetaLiterals

----------------------------------------------------------------------------
(* C6: a statement of the package body changes nothing but the package     *)
(* namespace.  An assignment binds one name and leaves the loaded-module   *)
(* table, the collaborators and the importer alone.  An import statement   *)
(* binds at most the class and the submodule name; outside the namespace   *)
(* it only registers the collaborator it loads and lets that collaborator  *)
(* act, and a failure unregisters the package and reaches the importer.    *)
C6_Frame ==
    [][/\ pc \in AssignLines =>
            /\ sysmodules' = sysmodules
            /\ modns' = modns
            /\ effects' = effects
            /\ held' = held
            /\ returned' = returned
            /\ err' = err
            /\ raised' = raised
            /\ \E n \in DOMAIN ns' :
                   /\ DOMAIN ns' = (DOMAIN ns) \cup {n}
                   /\ \A x \in (DOMAIN ns) \ {n} : ns'[x] = ns[x]
       /\ pc \in ImportLines =>
            LET m == Collaborators[CollabAt(pc)].module
                cls == Collaborators[CollabAt(pc)].name
            IN  /\ held' = held
                /\ returned' = returned
                /\ DOMAIN ns' \subseteq (DOMAIN ns) \cup {m, cls}
                /\ \A x \in DOMAIN ns : x \in DOMAIN ns' /\ ns'[x] = ns[x]
                /\ DOMAIN sysmodules' \subseteq (DOMAIN sysmodules) \cup {m}
                /\ \A k \in (DOMAIN sysmodules) \ {Pkg} :
                       k \in DOMAIN sysmodules' /\ sysmodules'[k] = sysmodules[k]
                /\ (Pkg \notin DOMAIN sysmodules') <=> (pc' = "failed")
                /\ DOMAIN modns' \subseteq (DOMAIN modns) \cup {m}
                /\ \A k \in DOMAIN modns :
                       k \in DOMAIN modns' /\ modns'[k] = modns[k]
                /\ effects' \in {effects, Append(effects, m)}
                /\ (m \in DOMAIN sysmodules) =>
                       /\ sysmodules' = sysmodules
                       /\ modns' = modns
                       /\ effects' = effects]_vars

(* The whole body has run, loading all three collaborators on the way.     *)
C6_Witness ==
    /\ pc = "return"
    /\ Len(effects) >= 3
    /\ LoadedByThisRun = Submodules

----------------------------------------------------------------------------
(* C7: the body runs in file order.  At each import statement the five     *)
(* metadata constants are bound, the classes of the collaborators before   *)
(* it and no others are bound, and no later collaborator has been loaded   *)
(* by this run; __all__ is bound only after the third import.  When the    *)
(* k-th collaborator fails, the collaborators after it have never been     *)
(* loaded, __all__ is not bound, and the metadata constants and the        *)
(* classes of the collaborators before it are bound in the abandoned       *)
(* namespace.  Collaborator bodies run in load order.                      *)
C7_Order ==
    /\ pc \in {"L1", "L13", "L14", "L15", "L16", "L17"} =>
          /\ (DOMAIN ns) \cap (Classes \cup Submodules \cup {"__all__"}) = {}
          /\ LoadedByThisRun = {}
    /\ pc \in ImportLines \cup {"L23", "return", "done"} =>
          Meta \subseteq DOMAIN ns
    /\ pc \in ImportLines =>
          /\ (DOMAIN ns) \cap Classes = ClassesBefore(CollabAt(pc))
          /\ ~Bound("__all__")
          /\ \A m \in LoadedByThisRun : IndexOfModule(m) < CollabAt(pc)
    /\ pc = "L23" => (Classes \subseteq DOMAIN ns /\ ~Bound("__all__"))
    /\ pc \in {"return", "done"} =>
          (Classes \subseteq DOMAIN ns /\ Bound("__all__"))
    /\ pc = "failed" =>
          /\ effects # <<>>
          /\ effects[Len(effects)] \in Submodules
          /\ LET k == IndexOfModule(effects[Len(effects)])
             IN  /\ \A j \in DOMAIN Collaborators :
                        j > k =>
                          /\ Collaborators[j].module \notin DOMAIN sysmodules
                          /\ Collaborators[j].module \notin Range(effects)
                 /\ ~Bound("__all__")
                 /\ Meta \subseteq DOMAIN ns
                 /\ (DOMAIN ns) \cap Classes = ClassesBefore(k)
    /\ \A i, j \in DOMAIN effects :
          (i < j /\ effects[i] \in Submodules /\ effects[j] \in Submodules) =>
              IndexOfModule(effects[i]) <= IndexOfModule(effects[j])

(* The second collaborator failed: the first class is bound, the third     *)
(* collaborator was never loaded.                                          *)
C7_Witness ==
    /\ pc = "failed"
    /\ effects # <<>>
    /\ effects[Len(effects)] = "extended_interaction_analyzer"
    /\ Bound("ProteinInteractionAnalyzer")
    /\ "interaction_visualizer" \notin DOMAIN sysmodules

----------------------------------------------------------------------------
(* C8: whenever the importer holds the package, it is the registered       *)
(* module and all three classes and all metadata constants are bound in    *)
(* it; after a failed load the package is not registered and the importer  *)
(* holds nothing; and the import that follows a failed load runs the body  *)
(* again from its first statement in a new, empty module object.           *)
C8_AllOrNothing ==
    /\ [](/\ held # NoneVal =>
               /\ held = ModuleObj(Pkg, pkgId)
               /\ Pkg \in DOMAIN sysmodules
               /\ sysmodules[Pkg] = held
               /\ Classes \cup Meta \subseteq DOMAIN ns
          /\ pc = "failed" => (Pkg \notin DOMAIN sysmodules /\ held = NoneVal)
          /\ (Pkg \in DOMAIN sysmodules /\ ~Running) =>
               Classes \cup Meta \subseteq DOMAIN ns)
    /\ [][(pc = "failed" /\ pc' # "failed") =>
              /\ pc' = Lines[1]
              /\ attempts' = attempts + 1
              /\ ns' = MachineryNs
              /\ pkgId' # pkgId
              /\ Pkg \in DOMAIN sysmodules']_vars

(* The importer holds a package whose load succeeded on a later attempt.   *)
C8_Witness ==
    /\ pc = "done"
    /\ attempts >= 2
    /\ held # NoneVal
    /\ err = "none"

====
